---- MODULE Spec2Model ----
(***************************************************************************)
(* Model of scripts/check_mcp_servers.py: the MCP server health check.     *)
(* main() runs seven checks in sequence, collects (label, passed) pairs,   *)
(* prints a summary and returns the exit code; the __main__ block maps     *)
(* KeyboardInterrupt to 130 and any other exception to 1.                  *)
(*                                                                         *)
(* Encodings and package names are sequences of one-character strings and  *)
(* captured output is a sequence of runs <<character, count>>, so that     *)
(* lower(), split('.') and [:500] are computed and not assumed.            *)
(***************************************************************************)
EXTENDS Integers, Sequences, FiniteSets, TLC

VARIABLES
    pc,          \* position of the single thread of control
    results,     \* main(): results, a sequence of <<label, passed>>
    version,     \* sys.version_info, as <<major, minor, micro>>
    world,       \* what importlib.import_module / getattr find on this host
    stdoutEnc,   \* sys.stdout.encoding (<<>> models None)
    envEnc,      \* os.environ.get('PYTHONIOENCODING', 'Not set')
    sysPath,     \* sys.path, as a set of entries
    cwd,         \* what os.getcwd() answers (CwdGone: it raises)
    exists,      \* exists[k]: Path(server_script).exists() for probe k
    i,           \* check_dependencies: index of the package being tried
    all_ok,      \* check_dependencies: all_ok
    reported,    \* check_dependencies: the lines printed, <<index, verdict>>
    k,           \* which worker probe is executing (1 or 2)
    bound,       \* check_mcp_server: whether the local `process` is bound
    poll,        \* check_mcp_server: the local `poll`
    stdout,      \* check_mcp_server: captured stdout, as runs
    stderr,      \* check_mcp_server: captured stderr, as runs
    pending,     \* what the try statement does once its finally block ends
    proc,        \* proc[j]: the operating-system process spawned by probe j
    surfaced,    \* the captured text the running probe has printed
    summary,     \* <<passed, total>> as printed by main(), <<>> before
    exitCode,    \* the process exit code, NoExit while running
    exitVia,     \* which sys.exit produced it
    raised,      \* history: <<label, kind>> of every exception raised in a check
    escaped,     \* history: the exception that left main(), <<>> if none
    trace,       \* history: trace[j], the steps probe j has executed
    interrupts,  \* history: number of KeyboardInterrupts delivered
    intAt        \* history: Len(results) when the first one was delivered

vars == <<pc, results, version, world, stdoutEnc, envEnc, sysPath, cwd, exists,
          i, all_ok, reported, k, bound, poll, stdout, stderr, pending, proc, surfaced,
          summary, exitCode, exitVia, raised, escaped, trace, interrupts, intAt>>

---------------------------------------------------------------------------
(* Bounds and program constants *)

\* how many KeyboardInterrupts the user may deliver during one run
MaxInterrupts == 1

\* stdout[:500], stderr[:500]
TruncLen == 500

\* sys.exit(130) on KeyboardInterrupt
InterruptExit == 130

NoExit == 0 - 1

---------------------------------------------------------------------------
(* Text helpers *)

\* str.lower() on the characters that occur in the modelled texts
LowerChar(c) ==
    CASE c = "U" -> "u"
      [] c = "T" -> "t"
      [] c = "F" -> "f"
      [] c = "N" -> "n"
      [] c = "L" -> "l"
      [] OTHER -> c

Lower(s) == [n \in 1..Len(s) |-> LowerChar(s[n])]

\* the number of characters of a text given as runs <<character, count>>
RECURSIVE TextLen(_)
TextLen(s) == IF s = <<>> THEN 0 ELSE Head(s)[2] + TextLen(Tail(s))

\* s[:n] on a text given as runs
RECURSIVE Take(_, _)
Take(s, n) ==
    IF s = <<>> \/ n <= 0 THEN <<>>
    ELSE IF Head(s)[2] <= n THEN <<Head(s)>> \o Take(Tail(s), n - Head(s)[2])
    ELSE <<<<Head(s)[1], n>>>>

\* index of the first "." in s, 0 if there is none
RECURSIVE FirstDot(_, _)
FirstDot(s, n) ==
    IF n > Len(s) THEN 0
    ELSE IF s[n] = "." THEN n
    ELSE FirstDot(s, n + 1)

\* package.split('.')
RECURSIVE Split(_)
Split(s) ==
    LET d == FirstDot(s, 1)
    IN  IF d = 0 THEN <<s>>
        ELSE <<SubSeq(s, 1, d - 1)>> \o Split(SubSeq(s, d + 1, Len(s)))

Dot == <<".">>
Mcp == <<"m", "c", "p">>
Server == <<"s", "e", "r", "v", "e", "r">>
Fastmcp == <<"f", "a", "s", "t", "m", "c", "p">>
Anthropic == <<"a", "n", "t", "h", "r", "o", "p", "i", "c">>
Openai == <<"o", "p", "e", "n", "a", "i">>
Google == <<"g", "o", "o", "g", "l", "e">>
Genai == <<"g", "e", "n", "a", "i">>
Aiofiles == <<"a", "i", "o", "f", "i", "l", "e", "s">>

Utf8 == <<"u", "t", "f", "-", "8">>
Utf8Upper == <<"U", "T", "F", "-", "8">>
Cp1252 == <<"c", "p", "1", "2", "5", "2">>
Latin1 == <<"L", "a", "t", "i", "n", "-", "1">>
Unknown == <<"u", "n", "k", "n", "o", "w", "n">>
NotSet == <<"N", "o", "t", " ", "s", "e", "t">>
NoneEnc == <<>>

---------------------------------------------------------------------------
(* check_python_version *)

MinVersion == <<3, 8>>

\* Python's tuple comparison a >= b: lexicographic, a proper prefix is smaller
RECURSIVE TupleGE(_, _, _)
TupleGE(a, b, n) ==
    IF n > Len(b) THEN TRUE
    ELSE IF n > Len(a) THEN FALSE
    ELSE IF a[n] > b[n] THEN TRUE
    ELSE IF a[n] < b[n] THEN FALSE
    ELSE TupleGE(a, b, n + 1)

\* mutant: the versions compared as text, so that "3.11" sorts before "3.8"
VersionOk_Mut(v) ==
    \/ v[1] > MinVersion[1]
    \/ /\ v[1] = MinVersion[1]
       /\ (IF v[2] >= 10 THEN v[2] \div 10 ELSE v[2]) >= MinVersion[2]

VersionOk(v) == TupleGE(v, MinVersion, 1)

Versions == {<<3, 7, 9>>, <<3, 8, 0>>, <<3, 11, 4>>}

---------------------------------------------------------------------------
(* check_dependencies *)

required_packages ==
    << Mcp,
       Mcp \o Dot \o Server,
       Mcp \o Dot \o Server \o Dot \o Fastmcp,
       Anthropic,
       Openai,
       Google \o Dot \o Genai,
       Aiofiles >>

NumPackages == Len(required_packages)

Tops == {Mcp, Anthropic, Openai, Google, Aiofiles}

\* the attribute chains the nested entries walk
Chains == {<<Mcp, Server>>, <<Mcp, Server, Fastmcp>>, <<Google, Genai>>}

\* top[t]: "ok" (imports), "missing" (ImportError), "broken" (import raises
\* something that is not an ImportError); attrs: the chains getattr finds
AllWorlds ==
    {w \in [top : [Tops -> {"ok", "missing", "broken"}], attrs : SUBSET Chains] :
        <<Mcp, Server, Fastmcp>> \in w.attrs => <<Mcp, Server>> \in w.attrs}

AllOkTop == [t \in Tops |-> "ok"]

\* the hosts the whole-run specification starts from
SomeWorlds ==
    { [top |-> AllOkTop, attrs |-> Chains],
      [top |-> [AllOkTop EXCEPT ![Aiofiles] = "missing"],
       attrs |-> Chains \ {<<Google, Genai>>}],
      [top |-> [AllOkTop EXCEPT ![Openai] = "broken"], attrs |-> Chains] }

\* lines 103-106: mod = getattr(mod, part, None) for parts[n..]
RECURSIVE Walk(_, _, _)
Walk(w, parts, n) ==
    IF n > Len(parts) THEN "ok"
    ELSE IF SubSeq(parts, 1, n) \in w.attrs THEN Walk(w, parts, n + 1)
    ELSE "ImportError"

\* lines 97-106: the outcome of the try body for one package
Resolve(w, package) ==
    LET parts == Split(package)
    IN  CASE w.top[parts[1]] = "missing" -> "ImportError"
          [] w.top[parts[1]] = "broken" -> "OtherError"
          [] OTHER -> IF Len(parts) = 1 THEN "ok" ELSE Walk(w, parts, 2)

---------------------------------------------------------------------------
(* check_encoding *)

\* x or "unknown"
OrDefault(x, d) == IF x = <<>> THEN d ELSE x

StdoutIsUtf8(enc) ==
    LET stdout_enc == OrDefault(enc, Unknown)
    IN  IF stdout_enc # Unknown THEN Lower(stdout_enc) = Utf8 ELSE FALSE

EnvIsUtf8(pythonioencoding) ==
    IF pythonioencoding # NotSet THEN Lower(pythonioencoding) = Utf8 ELSE FALSE

EncodingOk(enc, pythonioencoding) ==
    StdoutIsUtf8(enc) \/ EnvIsUtf8(pythonioencoding)

\* <<sys.stdout.encoding, PYTHONIOENCODING>> as hosts have them: a UTF-8
\* locale, a legacy code page, the override set (the stream follows it), an
\* override naming another encoding, a replaced stream without an encoding
EncodingHosts ==
    { <<Utf8, NotSet>>, <<Cp1252, NotSet>>, <<Utf8Upper, Utf8Upper>>,
      <<Latin1, Latin1>>, <<NoneEnc, NotSet>> }

\* the hosts the whole-run specification starts from
SomeEncodingHosts == {<<Cp1252, NotSet>>, <<Utf8Upper, Utf8Upper>>, <<NoneEnc, NotSet>>}

---------------------------------------------------------------------------
(* check_pythonpath *)

ProjectDir == "/proj"
ScriptsDir == "/proj/scripts"
CwdGone == "<getcwd raises>"

PythonpathOk(current_dir, path) == current_dir \in path \/ "." \in path

SysPaths == {{ScriptsDir}, {ScriptsDir, ProjectDir}, {ScriptsDir, "."}}

\* <<sys.path, os.getcwd()>> as hosts have them; the working directory may
\* have been removed, and then os.getcwd() raises
PathHosts ==
    {<<p, ProjectDir>> : p \in SysPaths} \cup {<<{ScriptsDir}, CwdGone>>}

---------------------------------------------------------------------------
(* check_mcp_server *)

Probes == {1, 2}

\* the labels main() gives the results, in the order of its calls
Labels ==
    << "Python Version", "Python Path", "Dependencies", "Encoding",
       "PYTHONPATH", "Command Executor", "Code Implementation" >>

ProbeLabel(j) == IF j = 1 THEN "Command Executor" ELSE "Code Implementation"

\* exit statuses a worker can end with: killed by SIGTERM, success, failure
ExitCodes == {-15, 0, 1}

PollUnset == [st |-> "unset", rc |-> 0]

\* a text of n characters whose tail differs from its first TruncLen characters
Str(n) ==
    IF n = 0 THEN <<>>
    ELSE IF n <= TruncLen THEN <<<<"a", n>>>>
    ELSE <<<<"a", TruncLen>>, <<"b", n - TruncLen>>>>

CapturedTexts == {Str(0), Str(TruncLen - 1), Str(TruncLen + 1)}

NoSurfaced == <<"none", <<>>>>

\* mutant: `poll <= 0`, so that a death by signal counts as a pass
ExitStatusPasses_Mut(rc) == rc <= 0

\* line 177: if poll == 0
ExitStatusPasses(rc) == rc = 0

\* positions inside the try body and its except handler (lines 152-190)
TryBody ==
    {"probe_spawn", "probe_sleep", "probe_poll", "probe_terminate", "probe_wait",
     "probe_communicate", "probe_report", "probe_except"}

\* positions inside the inner try of the finally block (lines 192-195)
Cleanup == {"fin_poll", "fin_terminate", "fin_wait"}

---------------------------------------------------------------------------
(* main *)

\* line 243: sum(1 for _, result in results if result)
RECURSIVE Passed(_)
Passed(rs) ==
    IF rs = <<>> THEN 0
    ELSE (IF Head(rs)[2] THEN 1 ELSE 0) + Passed(Tail(rs))

\* mutant: any passed check makes the run a success
ReturnCode_Mut(passed, total) == IF passed > 0 THEN 0 ELSE 1

\* lines 254-260
ReturnCode(passed, total) == IF passed = total THEN 0 ELSE 1

---------------------------------------------------------------------------
(* State machine *)

host == <<version, world, stdoutEnc, envEnc, sysPath, cwd, exists>>
depLocals == <<i, all_ok, reported>>
probeLocals == <<k, bound, poll, stdout, stderr, pending>>
exitVars == <<summary, exitCode, exitVia, escaped>>
interruptVars == <<interrupts, intAt>>

Init ==
    /\ pc = "version"
    /\ results = <<>>
    /\ version \in Versions
    /\ world \in SomeWorlds
    /\ \E h \in SomeEncodingHosts : stdoutEnc = h[1] /\ envEnc = h[2]
    /\ \E h \in PathHosts : sysPath = h[1] /\ cwd = h[2]
    /\ exists \in [Probes -> BOOLEAN]
    /\ i = 0
    /\ all_ok = TRUE
    /\ reported = <<>>
    /\ k = 0
    /\ bound = FALSE
    /\ poll = PollUnset
    /\ stdout = <<>>
    /\ stderr = <<>>
    /\ pending = "none"
    /\ proc = [j \in Probes |-> "none"]
    /\ surfaced = NoSurfaced
    /\ summary = <<>>
    /\ exitCode = NoExit
    /\ exitVia = "none"
    /\ raised = {}
    /\ escaped = <<>>
    /\ trace = [j \in Probes |-> {}]
    /\ interrupts = 0
    /\ intAt = NoExit

\* lines 268-272: an exception leaves main() and the catch-all exits with 1
Escapes(label, kind) ==
    /\ pc' = "exited"
    /\ exitCode' = 1
    /\ exitVia' = "exception"
    /\ escaped' = <<label, kind>>
    /\ raised' = raised \cup {<<label, kind>>}
    /\ UNCHANGED summary

\* mutant: a failed version check ends the run at the summary
CheckPythonVersion_Mut ==
    /\ pc = "version"
    /\ results' = Append(results, <<"Python Version", VersionOk(version)>>)
    /\ pc' = IF VersionOk(version) THEN "path" ELSE "summary"
    /\ UNCHANGED <<host, depLocals, probeLocals, proc, surfaced, exitVars,
                   raised, trace, interruptVars>>

\* lines 50-61 and 224
CheckPythonVersion ==
    /\ pc = "version"
    /\ results' = Append(results, <<"Python Version", VersionOk(version)>>)
    /\ pc' = "path"
    /\ UNCHANGED <<host, depLocals, probeLocals, proc, surfaced, exitVars,
                   raised, trace, interruptVars>>

\* lines 63-77 and 225: subprocess.run may raise; the handler only warns
CheckPythonPath ==
    /\ pc = "path"
    /\ \E launcherRaises \in BOOLEAN :
         raised' = IF launcherRaises
                   THEN raised \cup {<<"Python Path", "LauncherError">>}
                   ELSE raised
    /\ results' = Append(results, <<"Python Path", TRUE>>)
    /\ pc' = "deps"
    /\ UNCHANGED <<host, depLocals, probeLocals, proc, surfaced, exitVars,
                   trace, interruptVars>>

\* lines 81-93
DepsEnter ==
    /\ pc = "deps"
    /\ i' = 1
    /\ all_ok' = TRUE
    /\ reported' = <<>>
    /\ pc' = "deps_loop"
    /\ UNCHANGED <<results, host, probeLocals, proc, surfaced, exitVars,
                   raised, trace, interruptVars>>

\* mutant: the success branch sets all_ok = True, so the last entry decides
DepOk_Mut ==
    /\ pc = "deps_loop"
    /\ i <= NumPackages
    /\ Resolve(world, required_packages[i]) = "ok"
    /\ reported' = Append(reported, <<i, "installed">>)
    /\ all_ok' = TRUE
    /\ i' = i + 1
    /\ UNCHANGED <<pc, results, host, probeLocals, proc, surfaced,
                   exitVars, raised, trace, interruptVars>>

\* lines 95-108: the package resolves
DepOk ==
    /\ pc = "deps_loop"
    /\ i <= NumPackages
    /\ Resolve(world, required_packages[i]) = "ok"
    /\ reported' = Append(reported, <<i, "installed">>)
    /\ i' = i + 1
    /\ UNCHANGED <<pc, results, host, all_ok, probeLocals, proc, surfaced,
                   exitVars, raised, trace, interruptVars>>

\* lines 109-112: ImportError is caught, reported, and the loop goes on
DepImportError ==
    /\ pc = "deps_loop"
    /\ i <= NumPackages
    /\ Resolve(world, required_packages[i]) = "ImportError"
    /\ reported' = Append(reported, <<i, "NOT installed">>)
    /\ all_ok' = FALSE
    /\ i' = i + 1
    /\ raised' = raised \cup {<<"Dependencies", "ImportError">>}
    /\ UNCHANGED <<pc, results, host, probeLocals, proc, surfaced, exitVars,
                   trace, interruptVars>>

\* line 109 catches ImportError only: anything else leaves the check and main()
DepOtherError ==
    /\ pc = "deps_loop"
    /\ i <= NumPackages
    /\ Resolve(world, required_packages[i]) = "OtherError"
    /\ Escapes("Dependencies", "OtherImportError")
    /\ UNCHANGED <<results, host, depLocals, probeLocals, proc, surfaced,
                   trace, interruptVars>>

\* lines 114 and 226
DepsReturn ==
    /\ pc = "deps_loop"
    /\ i > NumPackages
    /\ results' = Append(results, <<"Dependencies", all_ok>>)
    /\ pc' = "encoding"
    /\ UNCHANGED <<host, depLocals, probeLocals, proc, surfaced, exitVars,
                   raised, trace, interruptVars>>

\* lines 116-139 and 227
CheckEncoding ==
    /\ pc = "encoding"
    /\ results' = Append(results, <<"Encoding", EncodingOk(stdoutEnc, envEnc)>>)
    /\ pc' = "pythonpath"
    /\ UNCHANGED <<host, depLocals, probeLocals, proc, surfaced, exitVars,
                   raised, trace, interruptVars>>

\* lines 199-213 and 228, then the call of line 231
CheckPythonpath ==
    /\ pc = "pythonpath"
    /\ cwd # CwdGone
    /\ results' = Append(results, <<"PYTHONPATH", PythonpathOk(cwd, sysPath)>>)
    /\ pc' = "probe_exists"
    /\ k' = 1
    /\ UNCHANGED <<host, depLocals, bound, poll, stdout, stderr, pending, proc,
                   surfaced, exitVars, raised, trace, interruptVars>>

\* line 206 is not inside any try: a failing os.getcwd() leaves main()
GetcwdRaises ==
    /\ pc = "pythonpath"
    /\ cwd = CwdGone
    /\ Escapes("PYTHONPATH", "GetcwdError")
    /\ UNCHANGED <<results, host, depLocals, probeLocals, proc, surfaced,
                   trace, interruptVars>>

---------------------------------------------------------------------------
(* check_mcp_server, one action per statement that can block or raise *)

Mark(step) == trace' = [trace EXCEPT ![k] = @ \cup {step}]

Raise(kind) == raised' = raised \cup {<<ProbeLabel(k), kind>>}

\* the function returns `value` to main(), which appends it (lines 231-238)
Returns(value) ==
    /\ results' = Append(results, <<ProbeLabel(k), value>>)
    /\ pc' = IF k = 1 THEN "probe_exists" ELSE "summary"
    /\ k' = IF k = 1 THEN 2 ELSE k
    /\ bound' = FALSE
    /\ poll' = PollUnset
    /\ stdout' = <<>>
    /\ stderr' = <<>>
    /\ pending' = "none"

\* mutant: the existence test reports the error but does not return
ProbeNotFound_Mut ==
    /\ pc = "probe_exists"
    /\ ~exists[k]
    /\ surfaced' = NoSurfaced
    /\ pc' = "probe_spawn"
    /\ UNCHANGED <<results, host, depLocals, probeLocals, proc, exitVars,
                   raised, trace, interruptVars>>

\* lines 143-148: the script is not there; return False before the try
ProbeNotFound ==
    /\ pc = "probe_exists"
    /\ ~exists[k]
    /\ surfaced' = NoSurfaced
    /\ Returns(FALSE)
    /\ UNCHANGED <<host, depLocals, proc, exitVars, raised, trace, interruptVars>>

\* lines 143-150: the script is there
ProbeFound ==
    /\ pc = "probe_exists"
    /\ exists[k]
    /\ surfaced' = NoSurfaced
    /\ pc' = "probe_spawn"
    /\ UNCHANGED <<results, host, depLocals, probeLocals, proc, exitVars,
                   raised, trace, interruptVars>>

\* lines 154-160: Popen starts the worker and binds `process`
ProbeSpawn ==
    /\ pc = "probe_spawn"
    /\ proc' = [proc EXCEPT ![k] = "running"]
    /\ bound' = TRUE
    /\ Mark("popen")
    /\ pc' = "probe_sleep"
    /\ UNCHANGED <<results, host, depLocals, k, poll, stdout, stderr, pending,
                   surfaced, exitVars, raised, interruptVars>>

\* lines 154-160: Popen raises (OSError); `process` stays unbound
ProbeSpawnRaises ==
    /\ pc = "probe_spawn"
    /\ Mark("popen")
    /\ Raise("SpawnError")
    /\ pc' = "probe_except"
    /\ UNCHANGED <<results, host, depLocals, probeLocals, proc, surfaced,
                   exitVars, interruptVars>>

\* line 163: time.sleep(timeout)
ProbeSleep ==
    /\ pc = "probe_sleep"
    /\ Mark("sleep")
    /\ pc' = "probe_poll"
    /\ UNCHANGED <<results, host, depLocals, probeLocals, proc, surfaced,
                   exitVars, raised, interruptVars>>

\* lines 166-170: poll() is None, the worker is resident
ProbePollRunning ==
    /\ pc = "probe_poll"
    /\ proc[k] = "running"
    /\ poll' = [st |-> "none", rc |-> 0]
    /\ Mark("resident")
    /\ pc' = "probe_terminate"
    /\ UNCHANGED <<results, host, depLocals, k, bound, stdout, stderr, pending,
                   proc, surfaced, exitVars, raised, interruptVars>>

\* lines 166-174: poll() answers the exit status
ProbePollExited ==
    /\ pc = "probe_poll"
    /\ proc[k] = "exited"
    /\ \E rc \in ExitCodes : poll' = [st |-> "code", rc |-> rc]
    /\ pc' = "probe_communicate"
    /\ UNCHANGED <<results, host, depLocals, k, bound, stdout, stderr, pending,
                   proc, surfaced, exitVars, raised, trace, interruptVars>>

\* line 171: process.terminate() asks the worker to stop; it may not
ProbeTerminate ==
    /\ pc = "probe_terminate"
    /\ pc' = "probe_wait"
    /\ UNCHANGED <<results, host, depLocals, probeLocals, proc, surfaced,
                   exitVars, raised, trace, interruptVars>>

\* lines 172-173: the worker exited within the 2 seconds; return True
ProbeWaitReturns ==
    /\ pc = "probe_wait"
    /\ proc[k] = "exited"
    /\ pending' = "retTrue"
    /\ pc' = "fin_poll"
    /\ UNCHANGED <<results, host, depLocals, k, bound, poll, stdout, stderr,
                   proc, surfaced, exitVars, raised, trace, interruptVars>>

\* mutant: the handler of line 188 catches OSError only, so TimeoutExpired
\* leaves the probe and main()
ProbeWaitTimeout_Mut ==
    /\ pc = "probe_wait"
    /\ proc[k] = "running"
    /\ Escapes(ProbeLabel(k), "TimeoutExpired")
    /\ UNCHANGED <<results, host, depLocals, probeLocals, proc, surfaced,
                   trace, interruptVars>>

\* line 172: the worker is still running after 2 seconds; wait raises
\* TimeoutExpired, which the handler of line 188 catches
ProbeWaitTimeout ==
    /\ pc = "probe_wait"
    /\ proc[k] = "running"
    /\ Raise("TimeoutExpired")
    /\ pc' = "probe_except"
    /\ UNCHANGED <<results, host, depLocals, probeLocals, proc, surfaced,
                   exitVars, trace, interruptVars>>

\* line 176: stdout, stderr = process.communicate()
ProbeCommunicate ==
    /\ pc = "probe_communicate"
    /\ stdout' \in CapturedTexts
    /\ stderr' \in CapturedTexts
    /\ pc' = "probe_report"
    /\ UNCHANGED <<results, host, depLocals, k, bound, poll, pending, proc,
                   surfaced, exitVars, raised, trace, interruptVars>>

\* lines 177-186
ProbeReport ==
    /\ pc = "probe_report"
    /\ IF ExitStatusPasses(poll.rc)
       THEN /\ surfaced' = IF stdout # <<>>
                           THEN <<"stdout", Take(stdout, TruncLen)>>
                           ELSE surfaced
            /\ pending' = "retTrue"
       ELSE /\ surfaced' = IF stderr # <<>>
                           THEN <<"stderr", Take(stderr, TruncLen)>>
                           ELSE surfaced
            /\ pending' = "retFalse"
    /\ pc' = "fin_poll"
    /\ UNCHANGED <<results, host, depLocals, k, bound, poll, stdout, stderr,
                   proc, exitVars, raised, trace, interruptVars>>

\* lines 188-190: except Exception: report, return False
ProbeExcept ==
    /\ pc = "probe_except"
    /\ pending' = "retFalse"
    /\ pc' = "fin_poll"
    /\ UNCHANGED <<results, host, depLocals, k, bound, poll, stdout, stderr,
                   proc, surfaced, exitVars, raised, trace, interruptVars>>

\* line 193 with `process` unbound: UnboundLocalError, swallowed by line 196
FinPollUnbound ==
    /\ pc = "fin_poll"
    /\ ~bound
    /\ Mark("finally")
    /\ Raise("UnboundLocalError")
    /\ pc' = "fin_end"
    /\ UNCHANGED <<results, host, depLocals, probeLocals, proc, surfaced,
                   exitVars, interruptVars>>

\* line 193: the worker has exited, nothing to clean up
FinPollExited ==
    /\ pc = "fin_poll"
    /\ bound
    /\ proc[k] = "exited"
    /\ Mark("finally")
    /\ pc' = "fin_end"
    /\ UNCHANGED <<results, host, depLocals, probeLocals, proc, surfaced,
                   exitVars, raised, interruptVars>>

\* line 193: the worker is still running
FinPollRunning ==
    /\ pc = "fin_poll"
    /\ bound
    /\ proc[k] = "running"
    /\ Mark("finally")
    /\ pc' = "fin_terminate"
    /\ UNCHANGED <<results, host, depLocals, probeLocals, proc, surfaced,
                   exitVars, raised, interruptVars>>

\* line 194
FinTerminate ==
    /\ pc = "fin_terminate"
    /\ pc' = "fin_wait"
    /\ UNCHANGED <<results, host, depLocals, probeLocals, proc, surfaced,
                   exitVars, raised, trace, interruptVars>>

\* line 195: the worker exited within the 2 seconds
FinWaitReturns ==
    /\ pc = "fin_wait"
    /\ proc[k] = "exited"
    /\ pc' = "fin_end"
    /\ UNCHANGED <<results, host, depLocals, probeLocals, proc, surfaced,
                   exitVars, raised, trace, interruptVars>>

\* lines 195-197: TimeoutExpired again, swallowed; the worker is left running
FinWaitTimeout ==
    /\ pc = "fin_wait"
    /\ proc[k] = "running"
    /\ Raise("CleanupTimeout")
    /\ pc' = "fin_end"
    /\ UNCHANGED <<results, host, depLocals, probeLocals, proc, surfaced,
                   exitVars, trace, interruptVars>>

\* the finally block is done and the pending return completes
FinEndReturn ==
    /\ pc = "fin_end"
    /\ pending \in {"retTrue", "retFalse"}
    /\ Returns(pending = "retTrue")
    /\ UNCHANGED <<host, depLocals, proc, surfaced, exitVars, raised, trace,
                   interruptVars>>

\* lines 265-267: KeyboardInterrupt reaches the __main__ block
InterruptExits ==
    /\ pc' = "exited"
    /\ exitCode' = InterruptExit
    /\ exitVia' = "interrupt"
    /\ UNCHANGED <<summary, escaped>>

\* the finally block is done and the pending KeyboardInterrupt goes on:
\* the frame of check_mcp_server is unwound, its locals are gone
FinEndRaise ==
    /\ pc = "fin_end"
    /\ pending = "raiseKI"
    /\ InterruptExits
    /\ bound' = FALSE
    /\ poll' = PollUnset
    /\ stdout' = <<>>
    /\ stderr' = <<>>
    /\ pending' = "none"
    /\ UNCHANGED <<results, host, depLocals, k, proc, surfaced, raised, trace,
                   interruptVars>>

\* the worker of probe j ends by itself, or in answer to terminate()
ProcExit(j) ==
    /\ pc # "exited"
    /\ proc[j] = "running"
    /\ proc' = [proc EXCEPT ![j] = "exited"]
    /\ UNCHANGED <<pc, results, host, depLocals, probeLocals, surfaced,
                   exitVars, raised, trace, interruptVars>>

---------------------------------------------------------------------------
(* main(): summary and exit code; the user's interrupt *)

\* lines 241-260 and 264
Summary ==
    /\ pc = "summary"
    /\ summary' = <<Passed(results), Len(results)>>
    /\ exitCode' = ReturnCode(Passed(results), Len(results))
    /\ exitVia' = "return"
    /\ pc' = "exited"
    /\ UNCHANGED <<results, host, depLocals, probeLocals, proc, surfaced,
                   escaped, raised, trace, interruptVars>>

Delivered ==
    /\ pc # "exited"
    /\ interrupts < MaxInterrupts
    /\ interrupts' = interrupts + 1
    /\ intAt' = IF interrupts = 0 THEN Len(results) ELSE intAt

\* KeyboardInterrupt outside check_mcp_server's try statement: no handler
\* below the __main__ block catches it
InterruptPropagates ==
    /\ Delivered
    /\ pc \notin TryBody \cup Cleanup
    /\ InterruptExits
    /\ UNCHANGED <<results, host, depLocals, probeLocals, proc, surfaced,
                   raised, trace>>

\* KeyboardInterrupt in the try body or the except handler: `except Exception`
\* does not catch it; the finally block runs with the interrupt pending
InterruptInTry ==
    /\ Delivered
    /\ pc \in TryBody
    /\ pending' = "raiseKI"
    /\ pc' = "fin_poll"
    /\ UNCHANGED <<results, host, depLocals, k, bound, poll, stdout, stderr,
                   proc, surfaced, exitVars, raised, trace>>

\* KeyboardInterrupt inside the finally block's try: the bare `except: pass`
\* of lines 196-197 catches it, and what was pending before goes on
InterruptInCleanup ==
    /\ Delivered
    /\ pc \in Cleanup
    /\ pc' = "fin_end"
    /\ UNCHANGED <<results, host, depLocals, probeLocals, proc, surfaced,
                   exitVars, raised, trace>>

Next ==
    \/ CheckPythonVersion
    \/ CheckPythonPath
    \/ DepsEnter
    \/ DepOk
    \/ DepImportError
    \/ DepOtherError
    \/ DepsReturn
    \/ CheckEncoding
    \/ CheckPythonpath
    \/ GetcwdRaises
    \/ ProbeNotFound
    \/ ProbeFound
    \/ ProbeSpawn
    \/ ProbeSpawnRaises
    \/ ProbeSleep
    \/ ProbePollRunning
    \/ ProbePollExited
    \/ ProbeTerminate
    \/ ProbeWaitReturns
    \/ ProbeWaitTimeout
    \/ ProbeCommunicate
    \/ ProbeReport
    \/ ProbeExcept
    \/ FinPollUnbound
    \/ FinPollExited
    \/ FinPollRunning
    \/ FinTerminate
    \/ FinWaitReturns
    \/ FinWaitTimeout
    \/ FinEndReturn
    \/ FinEndRaise
    \/ \E j \in Probes : ProcExit(j)
    \/ Summary
    \/ InterruptPropagates
    \/ InterruptInTry
    \/ InterruptInCleanup

Spec == Init /\ [][Next]_vars

---------------------------------------------------------------------------
(* check_dependencies alone, on every host of AllWorlds: the state at the
   call of line 226 on a host that passed the first two checks *)

InitDeps ==
    /\ pc = "deps"
    /\ results = <<<<"Python Version", TRUE>>, <<"Python Path", TRUE>>>>
    /\ version = <<3, 11, 4>>
    /\ world \in AllWorlds
    /\ stdoutEnc = Utf8
    /\ envEnc = NotSet
    /\ sysPath = {ScriptsDir, ProjectDir}
    /\ cwd = ProjectDir
    /\ exists = [j \in Probes |-> TRUE]
    /\ i = 0
    /\ all_ok = TRUE
    /\ reported = <<>>
    /\ k = 0
    /\ bound = FALSE
    /\ poll = PollUnset
    /\ stdout = <<>>
    /\ stderr = <<>>
    /\ pending = "none"
    /\ proc = [j \in Probes |-> "none"]
    /\ surfaced = NoSurfaced
    /\ summary = <<>>
    /\ exitCode = NoExit
    /\ exitVia = "none"
    /\ raised = {}
    /\ escaped = <<>>
    /\ trace = [j \in Probes |-> {}]
    /\ interrupts = 0
    /\ intAt = NoExit

NextDeps ==
    \/ DepsEnter
    \/ DepOk
    \/ DepImportError
    \/ DepOtherError
    \/ DepsReturn

SpecDeps == InitDeps /\ [][NextDeps]_vars

---------------------------------------------------------------------------
(* Vocabulary of the properties *)

\* the place of probe j's result in results
ResultIndex(j) == CHOOSE n \in 1..Len(Labels) : Labels[n] = ProbeLabel(j)

\* probe j has returned to main()
ProbeReturned(j) == Len(results) >= ResultIndex(j)

\* main() ran to its return statement
Completed == pc = "exited" /\ exitVia = "return"

AllPassed == \A n \in 1..Len(results) : results[n][2]

\* the n-th character of a text given as runs
RECURSIVE CharAt(_, _)
CharAt(s, n) ==
    IF n <= Head(s)[2] THEN Head(s)[1] ELSE CharAt(Tail(s), n - Head(s)[2])

\* t is the first TruncLen characters of s (all of s when s is shorter)
IsTruncationOf(t, s) ==
    /\ TextLen(t) <= TruncLen
    /\ TextLen(t) <= TextLen(s)
    /\ \A n \in 1..TextLen(t) : CharAt(t, n) = CharAt(s, n)
    /\ TextLen(t) = TruncLen \/ TextLen(t) = TextLen(s)

\* the dependency list as module paths, written out
PackagePaths ==
    << <<Mcp>>, <<Mcp, Server>>, <<Mcp, Server, Fastmcp>>, <<Anthropic>>,
       <<Openai>>, <<Google, Genai>>, <<Aiofiles>> >>

\* entry n resolves on this host: its top-level module imports and every
\* attribute of the chain is there
EntryResolves(n) ==
    LET path == PackagePaths[n]
    IN  /\ world.top[path[1]] = "ok"
        /\ \A m \in 2..Len(path) : SubSeq(path, 1, m) \in world.attrs

---------------------------------------------------------------------------
(* C1 *)

\* C1: when main() runs to completion, the exit code is 0 iff every collected
\* result is true, 1 iff at least one is false, and nothing else.
C1_ExitCode ==
    Completed =>
        /\ exitCode \in {0, 1}
        /\ exitCode = 0 <=> AllPassed
        /\ exitCode = 1 <=> \E n \in 1..Len(results) : ~results[n][2]

C1_Witness ==
    /\ Completed
    /\ exitCode = 1
    /\ Len(results) = Len(Labels)
    /\ Cardinality({n \in 1..Len(results) : ~results[n][2]}) = 1

---------------------------------------------------------------------------
(* C2 *)

\* C2: an interrupt delivered at any point of any check aborts the run: no
\* check returns a result after it, and the process exits with 130.
C2_InterruptAborts ==
    interrupts > 0 =>
        /\ Len(results) = intAt
        /\ pc = "exited" => exitCode = InterruptExit

---------------------------------------------------------------------------
(* C3 *)

\* C3: a probe that found its worker still running at the poll returns True,
\* whatever the worker does with the termination request.
C3_ResidentPasses ==
    \A j \in Probes :
        ("resident" \in trace[j] /\ ProbeReturned(j))
            => results[ResultIndex(j)] = <<ProbeLabel(j), TRUE>>

---------------------------------------------------------------------------
(* C4 *)

\* C4: once check_mcp_server has returned, the worker it spawned is no longer
\* running (so no worker is alive when the next probe starts or main returns).
C4_NoLingeringWorker ==
    \A j \in Probes : ProbeReturned(j) => proc[j] # "running"

---------------------------------------------------------------------------
(* C5 *)

\* C5: a probe of a script that does not exist returns False and never enters
\* the try statement: no Popen, no sleep, no finally block, no process.
C5_NotFound ==
    \A j \in Probes :
        ~exists[j] =>
            /\ trace[j] = {}
            /\ proc[j] = "none"
            /\ ~(k = j /\ pc \in TryBody \cup Cleanup \cup {"fin_end"})
            /\ ProbeReturned(j) => results[ResultIndex(j)] = <<ProbeLabel(j), FALSE>>

C5_Witness ==
    /\ exists[1]
    /\ ~exists[2]
    /\ "sleep" \in trace[1]
    /\ ProbeReturned(2)

---------------------------------------------------------------------------
(* C6 *)

---------------------------------------------------------------------------
(* C7 *)

\* the scenario as the specification words it: interpreter 3.11, every
\* dependency importable, the UTF-8 override set, both worker scripts present
\* and still resident at the poll
Scenario ==
    /\ version[1] = 3 /\ version[2] = 11
    /\ \A n \in 1..NumPackages : EntryResolves(n)
    /\ envEnc \in {Utf8, Utf8Upper}
    /\ \A j \in Probes : exists[j] /\ "resident" \in trace[j]

\* the working directory is on the search path
OnSearchPath == cwd \in sysPath \/ "." \in sysPath

\* probe j's wait of line 172 timed out
WaitTimedOut(j) == <<ProbeLabel(j), "TimeoutExpired">> \in raised

---------------------------------------------------------------------------
(* C8, under SpecDeps *)

---------------------------------------------------------------------------
(* C9 *)

\* C9 as stated: no exception other than the user's interrupt leaves a check.
C9_NothingEscapes == escaped = <<>> /\ exitVia # "exception"

\* the exceptions the checks handle themselves
Handled ==
    {"LauncherError", "ImportError", "SpawnError", "TimeoutExpired",
     "UnboundLocalError", "CleanupTimeout"}

\* C9 amended: the interpreter-path check and the worker probes turn every
\* exception raised in their try statements into their result (True for the
\* former, False for a probe), and the dependency check turns ImportError into
\* False; an import error that is not an ImportError and a failing getcwd
\* leave the check and main(), and the process exits with 1.
C9_Conversion ==
    /\ escaped # <<>> =>
          /\ escaped \in {<<"Dependencies", "OtherImportError">>,
                          <<"PYTHONPATH", "GetcwdError">>}
          /\ pc = "exited" /\ exitVia = "exception" /\ exitCode = 1
    /\ exitVia = "exception" => escaped # <<>>
    /\ \A e \in raised : e[2] \in Handled \/ e = escaped
    /\ <<"Python Path", "LauncherError">> \in raised =>
          results[2] = <<"Python Path", TRUE>>
    /\ (<<"Dependencies", "ImportError">> \in raised /\ Len(results) >= 3) =>
          results[3] = <<"Dependencies", FALSE>>
    /\ \A j \in Probes :
          ((\E x \in Handled : <<ProbeLabel(j), x>> \in raised)
              /\ (k = j => pc \notin TryBody \cup Cleanup \cup {"fin_end", "exited"}))
          => (ProbeReturned(j) /\ results[ResultIndex(j)] = <<ProbeLabel(j), FALSE>>)

C9_Witness ==
    /\ Completed
    /\ <<"Python Path", "LauncherError">> \in raised
    /\ <<"Command Executor", "SpawnError">> \in raised
    /\ <<"Code Implementation", "TimeoutExpired">> \in raised
    /\ <<"Code Implementation", "CleanupTimeout">> \in raised

---------------------------------------------------------------------------
(* C10 *)

Executing ==
    CASE pc = "version" -> 1
      [] pc = "path" -> 2
      [] pc \in {"deps", "deps_loop"} -> 3
      [] pc = "encoding" -> 4
      [] pc = "pythonpath" -> 5
      [] pc \in {"probe_exists", "fin_end"} \cup TryBody \cup Cleanup -> ResultIndex(k)
      [] OTHER -> 0

====
